---- MODULE Spec2Model ----
(***************************************************************************)
(* Airport passenger-flow simulation (src/airport_simulator.py, and its    *)
(* fixed-parameter variant src/main.py).  The program is a discrete-event  *)
(* simulation: run_simulation_with_params builds an event environment       *)
(* and eight capacity-limited resources, starts the arrival generator      *)
(* run_airport and executes events until SIMULATION_TIME.                  *)
(*                                                                         *)
(* The model has one action per kind of event the environment pops from    *)
(* its queue.  An action runs every callback of the event to completion,   *)
(* i.e. the resumed generator up to its next yield, including the exit of  *)
(* the "with request" block and the "finally" clause.                      *)
(* Virtual time is an integer; a random draw is a choice from a finite set.*)
(***************************************************************************)
EXTENDS Integers, Sequences, FiniteSets, TLC

(* ---------------------------- bounds ----------------------------------- *)
\* cap on the number of passengers run_airport creates (its loop is unbounded)
MaxPassengers == 3
\* interarrival draws of random.expovariate are taken from 0..MaxGap
MaxGap == 2

(* ------------------------- program constants --------------------------- *)
\* random.randint(0, 3): at most three bags, one time unit each
MaxBags == 3
\* event priorities of the environment: Initialize events and the "until"
\* event are urgent, every other event is normal
URGENT == 0
NORMAL == 1

Stages == 1..8
LastStage == 8
Mandatory == {1, 3, 8}
PIds == 0..(MaxPassengers - 1)
\* the value calculate_statistics returns when there is no data
None == [data |-> FALSE]

\* the resource a stage requests, in the order of passenger_journey
StageName(s) ==
  CASE s = 1 -> "registration"
    [] s = 2 -> "toilet_before"
    [] s = 3 -> "security"
    [] s = 4 -> "customs"
    [] s = 5 -> "duty_free"
    [] s = 6 -> "restaurant"
    [] s = 7 -> "toilet_after"
    [] s = 8 -> "boarding"

\* the key of service_stats a completed stage appends to
StatKey(s) ==
  CASE s = 1 -> "registration"
    [] s = 2 -> "toilet"
    [] s = 3 -> "security"
    [] s = 4 -> "customs"
    [] s = 5 -> "duty_free"
    [] s = 6 -> "restaurant"
    [] s = 7 -> "toilet"
    [] s = 8 -> "boarding"

StatKeys == {StatKey(s) : s \in Stages}

(* --------------------------- parameters -------------------------------- *)
\* A parameter structure: capacities per resource, probabilities of the
\* optional stages in percent, service-time ranges per statistics key.
AllOff == [s \in Stages |-> 0]
Unit == [k \in StatKeys |-> <<1, 1>>]
OneEach == [s \in Stages |-> 1]

Params(mw, st, ini, res, pr, svc) ==
  [max_time |-> mw, simulation_time |-> st, initial_passengers |-> ini,
   resources |-> res, probabilities |-> pr, service_times |-> svc]

Configs ==
  { \* one desk everywhere, only mandatory stages, deadline inside the service window
    Params(2, 7, 2, OneEach, AllOff, Unit),
    \* deadline long enough to be served, optional security-side stage possible
    Params(4, 7, 2, OneEach, [AllOff EXCEPT ![4] = 50], Unit),
    \* two registration desks, toilet before security always visited
    Params(3, 6, 3, [OneEach EXCEPT ![1] = 2], [AllOff EXCEPT ![2] = 100], Unit),
    \* maximum wait 0
    Params(0, 4, 2, OneEach, AllOff, Unit),
    \* longer services
    Params(3, 4, 1, OneEach, [AllOff EXCEPT ![7] = 50],
           [Unit EXCEPT !["security"] = <<1, 2>>]),
    \* several registration desks in front of a single security point
    Params(4, 5, 2, [OneEach EXCEPT ![1] = 3], AllOff,
           [Unit EXCEPT !["security"] = <<1, 3>>]),
    \* the same with a short deadline and one passenger present at the start
    Params(2, 5, 1, [OneEach EXCEPT ![1] = 3], AllOff,
           [Unit EXCEPT !["security"] = <<1, 3>>]),
    \* a horizon within reach of a single interarrival time
    Params(1, 2, 1, OneEach, AllOff, Unit),
    \* three passengers present at the start queue for one registration desk
    Params(4, 4, 3, OneEach, AllOff, Unit),
    \* a unit for every passenger everywhere, a deadline beyond the horizon
    Params(5, 5, 2, [s \in Stages |-> MaxPassengers], AllOff, Unit),
    \* one registration desk, two passengers at the start, registration of
    \* five time units and one more per bag
    Params(7, 7, 2, OneEach, AllOff, [Unit EXCEPT !["registration"] = <<5, 5>>]),
    \* a service-time range that reaches below zero
    Params(4, 5, 2, OneEach, AllOff, [Unit EXCEPT !["security"] = <<-1, 0>>]),
    \* a resource without any unit
    Params(4, 5, 2, [OneEach EXCEPT ![4] = 0], AllOff, Unit),
    \* a boarding that can take the passenger past its maximum wait
    Params(3, 5, 3, OneEach, AllOff, [Unit EXCEPT !["boarding"] = <<1, 2>>]),
    \* a security check that outlasts the maximum wait of the passenger behind
    Params(3, 5, 2, OneEach, AllOff, [Unit EXCEPT !["security"] = <<3, 3>>]) }

VARIABLES
  cfg,            \* params
  now,            \* env.now
  queue,          \* the environment's event heap, in pop order
  users,          \* resource.users, per stage
  putq,           \* resource.put_queue, per stage
  pax,            \* local state of each passenger_journey generator
  created,        \* passenger_id of run_airport
  wait_times, service_stats,
  served_passengers, rejected_passengers, timeout_passengers,
  run,            \* "running" until env.run returns, then "done"; "error"
                  \* when the call has raised an exception
  stats,          \* value returned by calculate_statistics
  issued,         \* number of requests issued so far (observation only)
  last,           \* what the step just executed did (observation only)
  random,         \* the generator of the random module, shared by every run
                  \* of the process: "start" while in the state the first
                  \* call found it in, "advanced" once a draw has been made
  batch_params,   \* run_batch_experiments: the list read from the batch file
  experiment,     \* run_batch_experiments: i of "for i, params in enumerate"
  results,        \* run_batch_experiments: the list of result entries
  heap,           \* the dictionaries and lists generate_grid_search_params
                  \* works on, by object identity
  base_params,    \* generate_grid_search_params: its first argument
  grid_params,    \* generate_grid_search_params: its second argument
  param_list      \* generate_grid_search_params: the list it returns

\* the variables of the callers of run_simulation_with_params, which no step
\* of a run reads or writes
outer == <<batch_params, experiment, results, heap, base_params, grid_params,
           param_list>>

vars == <<cfg, now, queue, users, putq, pax, created, wait_times, service_stats,
          served_passengers, rejected_passengers, timeout_passengers, run, stats,
          issued, last, random, outer>>

MAX_WAIT_TIME == cfg.max_time
SIMULATION_TIME == cfg.simulation_time
INITIAL_PASSENGERS == cfg.initial_passengers
Capacity(s) == cfg.resources[s]

(* --------------------------- event queue ------------------------------- *)
Ev(t, prio, kind, p, s) == [time |-> t, prio |-> prio, kind |-> kind, p |-> p, s |-> s]

\* heap order (time, priority, insertion id): e goes after every event that
\* is not later than it
NotAfter(a, e) == a.time < e.time \/ (a.time = e.time /\ a.prio <= e.prio)

\* mutant: the queue is a list in the order of scheduling
schedule_append(q, e) == Append(q, e)

schedule(q, e) ==
  LET k == Cardinality({i \in 1..Len(q) : NotAfter(q[i], e)})
  IN SubSeq(q, 1, k) \o <<e>> \o SubSeq(q, k + 1, Len(q))

Remove(seq, x) == SelectSeq(seq, LAMBDA y : y # x)
InSeq(seq, x) == \E i \in 1..Len(seq) : seq[i] = x


(* ------------------------ local working state -------------------------- *)
\* The part of the state a handler reads and writes, threaded through the
\* calls it makes; t is env.now while the handler runs.
Cur(t, rest, kind, p, s) ==
  [t |-> t, q |-> rest, users |-> users, putq |-> putq, pax |-> pax,
   wait_times |-> wait_times, service_stats |-> service_stats,
   served |-> served_passengers, rejected |-> rejected_passengers,
   timeout |-> timeout_passengers, issued |-> issued,
   last |-> [kind |-> kind, p |-> p, s |-> s, requested |-> {}, granted |-> {},
             released |-> {}, expired |-> {}]]

Commit(st) ==
  /\ now' = st.t
  /\ queue' = st.q
  /\ users' = st.users
  /\ putq' = st.putq
  /\ pax' = st.pax
  /\ wait_times' = st.wait_times
  /\ service_stats' = st.service_stats
  /\ served_passengers' = st.served
  /\ rejected_passengers' = st.rejected
  /\ timeout_passengers' = st.timeout
  /\ issued' = st.issued
  /\ last' = st.last

\* pc: where the generator is suspended; triggered, reqDone: the request
\* event is triggered, processed; dlDone: the timeout is processed; condTrig:
\* the condition is triggered.  freed tells that a unit was released by its
\* holder while the passenger was at the head of the queue of the resource.
\* ticket, tie and recorded observe the run:
\* the order of the requests, a unit freed for the passenger at the instant
\* of its deadline, and how often the passenger's outcome was counted.
\* path lists the stages whose resource the passenger requested, in order.
\* granted_at and svc_from are the times the current request was granted and
\* the service process started, svc_time the service time it drew; log has one record per duration appended to
\* service_stats for the passenger, sojourn the entries appended to wait_times.
NewPax == [pc |-> "new", stage |-> 0, arrival |-> 0, start |-> 0,
           triggered |-> FALSE, reqDone |-> FALSE, dlDone |-> FALSE,
           condTrig |-> FALSE, timed_out |-> FALSE,
           ticket |-> 0, tie |-> FALSE, freed |-> FALSE, recorded |-> 0,
           path |-> <<>>,
           granted_at |-> 0, svc_from |-> 0, svc_time |-> 0, log |-> <<>>, sojourn |-> <<>>]

(* ----------------------------- resources ------------------------------- *)
\* mutant: the head is made a user without looking at the capacity
trigger_put_unbounded(st, s) ==
  IF Len(st.putq[s]) > 0
  THEN LET h == Head(st.putq[s])
       IN [st EXCEPT !.users[s] = @ \cup {h},
                     !.putq[s] = Tail(@),
                     !.pax[h].triggered = TRUE,
                     !.pax[h].granted_at = st.t,
                     !.q = schedule(@, Ev(st.t, NORMAL, "request", h, s)),
                     !.last.granted = @ \cup {<<h, s>>}]
  ELSE st

\* mutant: the request that joined the queue last is served first
trigger_put_last(st, s) ==
  IF Len(st.putq[s]) > 0 /\ Cardinality(st.users[s]) < Capacity(s)
  THEN LET h == st.putq[s][Len(st.putq[s])]
       IN [st EXCEPT !.users[s] = @ \cup {h},
                     !.putq[s] = SubSeq(@, 1, Len(@) - 1),
                     !.pax[h].triggered = TRUE,
                     !.pax[h].granted_at = st.t,
                     !.q = schedule(@, Ev(st.t, NORMAL, "request", h, s)),
                     !.last.granted = @ \cup {<<h, s>>}]
  ELSE st

\* Resource._do_put for the head of the put queue, as _trigger_put runs it:
\* the head becomes a user when a unit is free, and its request event is
\* scheduled; nothing past the head is looked at.
trigger_put(st, s) ==
  IF Len(st.putq[s]) > 0 /\ Cardinality(st.users[s]) < Capacity(s)
  THEN LET h == Head(st.putq[s])
       IN [st EXCEPT !.users[s] = @ \cup {h},
                     !.putq[s] = Tail(@),
                     !.pax[h].triggered = TRUE,
                     !.pax[h].granted_at = st.t,
                     !.q = schedule(@, Ev(st.t, NORMAL, "request", h, s)),
                     !.last.granted = @ \cup {<<h, s>>}]
  ELSE st

\* resource.request(): the new request joins the tail of the put queue and
\* the queue is triggered
request(st, p, s) ==
  trigger_put([st EXCEPT !.putq[s] = Append(@, p),
                         !.pax[p].stage = s,
                         !.pax[p].path = Append(@, s),
                         !.pax[p].triggered = FALSE,
                         !.pax[p].reqDone = FALSE,
                         !.pax[p].dlDone = FALSE,
                         !.pax[p].condTrig = FALSE,
                         !.pax[p].ticket = st.issued + 1,
                         !.pax[p].tie = FALSE,
                         !.pax[p].freed = FALSE,
                         !.issued = @ + 1,
                         !.last.requested = @ \cup {<<p, s>>}], s)

\* mutant: a release by a requester that is no user takes a unit back from
\* some user, as a counter of units in use would
release_counted(st, p, s) ==
  LET held == p \in st.users[s]
      gone == IF held \/ st.users[s] = {} THEN {p}
              ELSE {CHOOSE u \in st.users[s] : TRUE}
  IN [st EXCEPT !.users[s] = @ \ gone,
                !.q = schedule(@, Ev(st.t, NORMAL, "release", p, s)),
                !.last.released = @ \cup {[p |-> p, s |-> s, held |-> held,
                                           before |-> st.users[s],
                                           after |-> st.users[s] \ gone]}]

\* mutant: the release frees the unit without scheduling the release event
\* that triggers the put queue
release_silent(st, p, s) ==
  LET held == p \in st.users[s]
  IN [st EXCEPT !.users[s] = @ \ {p},
                !.last.released = @ \cup {[p |-> p, s |-> s, held |-> held,
                                           before |-> st.users[s],
                                           after |-> st.users[s] \ {p}]}]

\* resource.release(request): the request leaves the users if it is there,
\* and the release event is scheduled; its callback triggers the put queue
release(st, p, s) ==
  LET held == p \in st.users[s]
      waiting == st.putq[s]
      tied == {w \in PIds : /\ held /\ waiting # <<>> /\ w = Head(waiting)
                            /\ st.pax[w].arrival + MAX_WAIT_TIME = st.t}
  IN [st EXCEPT !.users[s] = @ \ {p},
                !.q = schedule(@, Ev(st.t, NORMAL, "release", p, s)),
                !.pax = [w \in PIds |->
                           IF w \in tied THEN [@[w] EXCEPT !.tie = TRUE, !.freed = TRUE]
                           ELSE IF held /\ waiting # <<>> /\ w = Head(waiting)
                                THEN [@[w] EXCEPT !.freed = TRUE]
                                ELSE @[w]],
                !.last.released = @ \cup {[p |-> p, s |-> s, held |-> held,
                                           before |-> st.users[s],
                                           after |-> st.users[s] \ {p}]}]

\* mutant: the block is left without cancelling the request
exit_with_nocancel(st, p, s) == release(st, p, s)

\* leaving the "with ... request() as request" block: cancel() takes an
\* untriggered request out of the put queue, then the resource is released
exit_with(st, p, s) ==
  release(IF st.pax[p].triggered THEN st
          ELSE [st EXCEPT !.putq[s] = Remove(@, p)], p, s)

(* ----------------------------- passenger ------------------------------- *)
\* mutant: the finally clause counts a rejection whether or not the
\* passenger timed out
finish_always(st, p) ==
  LET to == st.pax[p].timed_out
  IN [st EXCEPT !.timeout = @ + 1,
                !.rejected = @ + 1,
                !.pax[p].recorded = @ + 1,
                !.pax[p].pc = IF to THEN "expired" ELSE "served",
                !.q = schedule(@, Ev(st.t, NORMAL, "jdone", p, 0))]

\* mutant: a timed out passenger is counted as rejected, not as timeout
finish_rejected_only(st, p) ==
  LET to == st.pax[p].timed_out
  IN [st EXCEPT !.rejected = IF to THEN @ + 1 ELSE @,
                !.pax[p].recorded = IF to THEN @ + 1 ELSE @,
                !.pax[p].pc = IF to THEN "expired" ELSE "served",
                !.q = schedule(@, Ev(st.t, NORMAL, "jdone", p, 0))]

\* the end of passenger_journey: the finally clause, then the generator
\* returns and its process event is scheduled
finish(st, p) ==
  LET to == st.pax[p].timed_out
  IN [st EXCEPT !.timeout = IF to THEN @ + 1 ELSE @,
                !.rejected = IF to THEN @ + 1 ELSE @,
                !.pax[p].recorded = IF to THEN @ + 1 ELSE @,
                !.pax[p].pc = IF to THEN "expired" ELSE "served",
                !.q = schedule(@, Ev(st.t, NORMAL, "jdone", p, 0))]

\* mutant: the passenger that expires on reaching the stage returns without
\* leaving the request block
start_stage_noexit(st, p, s) ==
  LET b == request([st EXCEPT !.pax[p].start = st.t], p, s)
      remaining_time == MAX_WAIT_TIME - (st.t - st.pax[p].arrival)
  IN IF remaining_time <= 0
     THEN finish([b EXCEPT !.pax[p].timed_out = TRUE,
                           !.last.expired = @ \cup {<<p, s, "entry">>}], p)
     ELSE [b EXCEPT !.q = schedule(@, Ev(st.t + remaining_time, NORMAL, "deadline", p, s)),
                    !.pax[p].pc = "waiting"]

\* mutant: only a negative remaining time expires the passenger on entry
start_stage_strict(st, p, s) ==
  LET b == request([st EXCEPT !.pax[p].start = st.t], p, s)
      remaining_time == MAX_WAIT_TIME - (st.t - st.pax[p].arrival)
  IN IF remaining_time < 0
     THEN finish(exit_with([b EXCEPT !.pax[p].timed_out = TRUE,
                                     !.last.expired = @ \cup {<<p, s, "entry">>}], p, s), p)
     ELSE [b EXCEPT !.q = schedule(@, Ev(st.t + remaining_time, NORMAL, "deadline", p, s)),
                    !.pax[p].pc = "waiting"]

\* mutant: the passenger waits for the whole maximum wait at every stage
start_stage_fullwait(st, p, s) ==
  LET b == request([st EXCEPT !.pax[p].start = st.t], p, s)
      remaining_time == MAX_WAIT_TIME - (st.t - st.pax[p].arrival)
  IN IF remaining_time <= 0
     THEN finish(exit_with([b EXCEPT !.pax[p].timed_out = TRUE,
                                     !.last.expired = @ \cup {<<p, s, "entry">>}], p, s), p)
     ELSE [b EXCEPT !.q = schedule(@, Ev(st.t + MAX_WAIT_TIME, NORMAL, "deadline", p, s)),
                    !.pax[p].pc = "waiting"]

\* one "with" block of passenger_journey up to its first yield: the request
\* is made on entering the block, then the remaining time is looked at
start_stage(st, p, s) ==
  LET b == request([st EXCEPT !.pax[p].start = st.t], p, s)
      remaining_time == MAX_WAIT_TIME - (st.t - st.pax[p].arrival)
  IN IF remaining_time <= 0
     THEN finish(exit_with([b EXCEPT !.pax[p].timed_out = TRUE,
                                     !.last.expired = @ \cup {<<p, s, "entry">>}], p, s), p)
     ELSE [b EXCEPT !.q = schedule(@, Ev(st.t + remaining_time, NORMAL, "deadline", p, s)),
                    !.pax[p].pc = "waiting"]

\* mutant: any stage whose probability is below 1 can be skipped
Skippable_any(u) == cfg.probabilities[u] < 100

\* the outcomes of the draws "random.random() < prob" between two stages
Skippable(u) == u \notin Mandatory /\ cfg.probabilities[u] < 100
Attempted(u) == u \in Mandatory \/ cfg.probabilities[u] > 0
NextStages(s) ==
  {u \in (s + 1)..LastStage : Attempted(u) /\ \A v \in (s + 1)..(u - 1) : Skippable(v)}

\* the values a service time can take
ServiceTimes(s) ==
  LET r == cfg.service_times[StatKey(s)]
  IN IF s = 1 THEN {u + b : u \in r[1]..r[2], b \in 0..MaxBags}
     ELSE r[1]..r[2]

\* what is known of a stage when its duration is appended to service_stats:
\* the times the stage was entered, the request granted, the service started
\* and the block left, the service time drawn and the duration appended
StageRecord(st, p, s, d) ==
  [s |-> s, start |-> st.pax[p].start, grant |-> st.pax[p].granted_at,
   from |-> st.pax[p].svc_from, time |-> st.pax[p].svc_time, to |-> st.t,
   duration |-> d]

\* mutant: the duration of a stage is measured from the arrival of the
\* passenger
after_service_from_arrival(st, p, s, nxt) ==
  LET a == exit_with(st, p, s)
      b == [a EXCEPT !.service_stats[StatKey(s)] = Append(@, st.t - st.pax[p].arrival),
                     !.pax[p].log = Append(@, StageRecord(st, p, s, st.t - st.pax[p].arrival))]
  IN IF s = LastStage
     THEN finish([b EXCEPT !.wait_times = Append(@, st.t - st.pax[p].arrival),
                           !.served = @ + 1,
                           !.pax[p].recorded = @ + 1,
                           !.pax[p].sojourn = Append(@, st.t - st.pax[p].arrival)], p)
     ELSE start_stage(b, p, nxt)

\* mutant: the request is not released when the service has ended
after_service_noexit(st, p, s, nxt) ==
  LET b == [st EXCEPT !.service_stats[StatKey(s)] = Append(@, st.t - st.pax[p].start),
                      !.pax[p].log = Append(@, StageRecord(st, p, s, st.t - st.pax[p].start))]
  IN IF s = LastStage
     THEN finish([b EXCEPT !.wait_times = Append(@, st.t - st.pax[p].arrival),
                           !.served = @ + 1,
                           !.pax[p].recorded = @ + 1,
                           !.pax[p].sojourn = Append(@, st.t - st.pax[p].arrival)], p)
     ELSE start_stage(b, p, nxt)

\* passenger_journey resumed after the service process ended: the with block
\* is left, the duration recorded, and the journey goes on to stage nxt
after_service(st, p, s, nxt) ==
  LET a == exit_with(st, p, s)
      b == [a EXCEPT !.service_stats[StatKey(s)] = Append(@, st.t - st.pax[p].start),
                     !.pax[p].log = Append(@, StageRecord(st, p, s, st.t - st.pax[p].start))]
  IN IF s = LastStage
     THEN finish([b EXCEPT !.wait_times = Append(@, st.t - st.pax[p].arrival),
                           !.served = @ + 1,
                           !.pax[p].recorded = @ + 1,
                           !.pax[p].sojourn = Append(@, st.t - st.pax[p].arrival)], p)
     ELSE start_stage(b, p, nxt)

\* mutant: the passenger asks whether the request is triggered, not whether
\* it is in the result of the condition
after_wait_triggered(st, p, s) ==
  IF ~st.pax[p].triggered
  THEN finish(exit_with([st EXCEPT !.pax[p].timed_out = TRUE,
                                   !.last.expired = @ \cup {<<p, s, "wait">>}], p, s), p)
  ELSE [st EXCEPT !.q = schedule(@, Ev(st.t, URGENT, "svcinit", p, s)),
                  !.pax[p].pc = "inproc"]

\* mutant: the test of the result of the condition is inverted
after_wait_inverted(st, p, s) ==
  IF st.pax[p].reqDone
  THEN finish(exit_with([st EXCEPT !.pax[p].timed_out = TRUE,
                                   !.last.expired = @ \cup {<<p, s, "wait">>}], p, s), p)
  ELSE [st EXCEPT !.q = schedule(@, Ev(st.t, URGENT, "svcinit", p, s)),
                  !.pax[p].pc = "inproc"]

\* mutant: a stage abandoned on timeout records the time waited
after_wait_recorded(st, p, s) ==
  IF ~st.pax[p].reqDone
  THEN finish(exit_with([st EXCEPT !.pax[p].timed_out = TRUE,
                                   !.service_stats[StatKey(s)] =
                                      Append(@, st.t - st.pax[p].start),
                                   !.last.expired = @ \cup {<<p, s, "wait">>}], p, s), p)
  ELSE [st EXCEPT !.q = schedule(@, Ev(st.t, URGENT, "svcinit", p, s)),
                  !.pax[p].pc = "inproc"]

\* passenger_journey resumed by its condition "request | timeout"
after_wait(st, p, s) ==
  IF ~st.pax[p].reqDone
  THEN finish(exit_with([st EXCEPT !.pax[p].timed_out = TRUE,
                                   !.last.expired = @ \cup {<<p, s, "wait">>}], p, s), p)
  ELSE [st EXCEPT !.q = schedule(@, Ev(st.t, URGENT, "svcinit", p, s)),
                  !.pax[p].pc = "inproc"]

\* passenger_journey resumed with the exception of its service process: the
\* with block is left, the finally clause counts nothing (timed_out is not
\* set), and the generator ends with the exception
after_failure(st, p, s) ==
  LET a == exit_with(st, p, s)
  IN [a EXCEPT !.pax[p].pc = "failed",
               !.q = schedule(@, Ev(st.t, NORMAL, "jfail", p, 0))]

\* Condition._check, called when one of the two events of the condition is
\* processed: the first one triggers the condition
check(st, p, s) ==
  IF st.pax[p].condTrig THEN st
  ELSE [st EXCEPT !.pax[p].condTrig = TRUE,
                  !.q = schedule(@, Ev(st.t, NORMAL, "cond", p, s))]

\* whether the condition of p's request at stage s still listens
Listening(p, s) == pax[p].stage = s /\ pax[p].pc = "waiting"


(* ------------------------- calculate_statistics ------------------------ *)
\* None when no passenger was served; otherwise the counters and the
\* quantities the derived metrics are computed from
resource_counts(k) ==
  IF k = "toilet" THEN Capacity(2) + Capacity(7)
  ELSE Capacity(CHOOSE s \in Stages : StatKey(s) = k)

RECURSIVE Sum(_)
Sum(seq) == IF seq = <<>> THEN 0 ELSE Head(seq) + Sum(Tail(seq))

\* mutant: an entry for every key, with or without recorded times
utilization_all ==
  [k \in StatKeys |-> <<Sum(service_stats[k]), SIMULATION_TIME * resource_counts(k)>>]

\* the utilization of every key of service_stats that has recorded times, as
\* the pair <<sum(times), simulation_time * resource_counts[service]>> of
\* the dividend and the divisor of the quotient the program returns
utilization ==
  [k \in {x \in StatKeys : service_stats[x] # <<>>} |->
     <<Sum(service_stats[k]), SIMULATION_TIME * resource_counts(k)>>]

\* served_passengers / total_passengers as a pair, 0 when nobody was counted
relative_throughput ==
  IF served_passengers + rejected_passengers > 0
  THEN <<served_passengers, served_passengers + rejected_passengers>>
  ELSE <<0, 1>>

\* mutant: "no data" is decided on the passengers counted, served or not
calculate_statistics_counted ==
  IF served_passengers + rejected_passengers = 0 THEN None
  ELSE [data |-> TRUE,
        served_passengers |-> served_passengers,
        rejected_passengers |-> rejected_passengers,
        timeout_passengers |-> timeout_passengers,
        n_wait_times |-> Len(wait_times),
        total_passengers |-> served_passengers + rejected_passengers,
        utilization |-> utilization,
        relative_throughput |-> relative_throughput,
        divisors |-> {Len(wait_times), SIMULATION_TIME}
                       \cup {SIMULATION_TIME * resource_counts(k) :
                               k \in {x \in StatKeys : service_stats[x] # <<>>}}]

calculate_statistics ==
  IF wait_times = <<>> THEN None
  ELSE [data |-> TRUE,
        served_passengers |-> served_passengers,
        rejected_passengers |-> rejected_passengers,
        timeout_passengers |-> timeout_passengers,
        n_wait_times |-> Len(wait_times),
        total_passengers |-> served_passengers + rejected_passengers,
        utilization |-> utilization,
        relative_throughput |-> relative_throughput,
        divisors |-> {Len(wait_times), SIMULATION_TIME}
                       \cup {SIMULATION_TIME * resource_counts(k) :
                               k \in {x \in StatKeys : service_stats[x] # <<>>}}]

(* ------------------------------- Init ---------------------------------- *)
\* Airport.__init__: building a resource with a capacity that is not
\* positive raises ValueError before env.run is reached
Started(c) == IF \E s \in Stages : c.resources[s] <= 0 THEN "error" ELSE "running"

\* the heap of the new environment when the call reaches env.run: the
\* Initialize event of run_airport and the urgent "until" event at
\* SIMULATION_TIME; nothing is scheduled when Airport(...) has raised
StartQueue(c) ==
  IF Started(c) = "error" THEN <<>>
  ELSE <<Ev(0, URGENT, "geninit", 0, 0),
         Ev(c.simulation_time, URGENT, "until", 0, 0)>>

\* a single call of run_simulation_with_params: no batch list and no grid
NoBatch == batch_params = <<>> /\ experiment = 0 /\ results = <<>>
Pending == [returned |-> FALSE, raised |-> FALSE, value |-> <<>>]
NoGrid == heap = <<>> /\ base_params = 0 /\ grid_params = <<>> /\ param_list = Pending

\* run_simulation_with_params up to env.run, or up to the exception of
\* Airport(...): empty statistics and a fresh environment
Init ==
  /\ cfg \in Configs
  /\ now = 0
  /\ queue = StartQueue(cfg)
  /\ users = [s \in Stages |-> {}]
  /\ putq = [s \in Stages |-> <<>>]
  /\ pax = [p \in PIds |-> NewPax]
  /\ created = 0
  /\ wait_times = <<>>
  /\ service_stats = [k \in StatKeys |-> <<>>]
  /\ served_passengers = 0
  /\ rejected_passengers = 0
  /\ timeout_passengers = 0
  /\ run = Started(cfg)
  /\ stats = None
  /\ issued = 0
  /\ last = [kind |-> "none", p |-> 0, s |-> 0, requested |-> {}, granted |-> {},
             released |-> {}, expired |-> {}]
  /\ random = "start"
  /\ NoBatch
  /\ NoGrid

(* ------------------------------ actions -------------------------------- *)
\* env.step(): the event at the head of the heap
Popped(kind) == run = "running" /\ queue # <<>> /\ Head(queue).kind = kind
Step(kind) == Cur(Head(queue).time, Tail(queue), kind, Head(queue).p, Head(queue).s)

\* the interarrival times random.expovariate can give
Gaps == 0..MaxGap

\* run_airport from its start to its first yield: the initial passengers'
\* processes are created, then the generator waits for the first arrival
RunAirportStart ==
  /\ Popped("geninit")
  /\ \E gap \in Gaps :
       LET st == Step("geninit")
           ids == 0..(INITIAL_PASSENGERS - 1)
           withPax == [st EXCEPT !.pax = [p \in PIds |->
                                    IF p \in ids THEN [NewPax EXCEPT !.pc = "init"] ELSE @[p]]]
           Inits[n \in 0..INITIAL_PASSENGERS] ==
             IF n = 0 THEN st.q
             ELSE schedule(Inits[n - 1], Ev(st.t, URGENT, "init", n - 1, 0))
           q2 == IF INITIAL_PASSENGERS < MaxPassengers
                 THEN schedule(Inits[INITIAL_PASSENGERS], Ev(st.t + gap, NORMAL, "arrive", 0, 0))
                 ELSE Inits[INITIAL_PASSENGERS]
       IN /\ Commit([withPax EXCEPT !.q = q2])
          /\ created' = INITIAL_PASSENGERS
  /\ random' = "advanced"
  /\ UNCHANGED <<outer, cfg, run, stats>>

\* mutant: passenger_id is not incremented for a generated passenger
RunAirportArrival_sameid ==
  /\ Popped("arrive")
  /\ created > 0
  /\ \E gap \in Gaps :
       LET st == Step("arrive")
           q1 == schedule(st.q, Ev(st.t, URGENT, "init", created - 1, 0))
           q2 == IF created + 1 < MaxPassengers
                 THEN schedule(q1, Ev(st.t + gap, NORMAL, "arrive", 0, 0))
                 ELSE q1
       IN /\ Commit([st EXCEPT !.q = q2, !.pax[created - 1].pc = "init"])
          /\ created' = created
  /\ random' = "advanced"
  /\ UNCHANGED <<outer, cfg, run, stats>>

\* run_airport resumed by its timeout: one more passenger process, then the
\* next interarrival wait
RunAirportArrival ==
  /\ Popped("arrive")
  /\ \E gap \in Gaps :
       LET st == Step("arrive")
           q1 == schedule(st.q, Ev(st.t, URGENT, "init", created, 0))
           q2 == IF created + 1 < MaxPassengers
                 THEN schedule(q1, Ev(st.t + gap, NORMAL, "arrive", 0, 0))
                 ELSE q1
       IN /\ Commit([st EXCEPT !.q = q2, !.pax[created].pc = "init"])
          /\ created' = created + 1
  /\ random' = "advanced"
  /\ UNCHANGED <<outer, cfg, run, stats>>

\* passenger_journey from its start to its first yield
PassengerStart ==
  /\ Popped("init")
  /\ LET st == Step("init")
         p == Head(queue).p
     IN Commit(start_stage([st EXCEPT !.pax[p].arrival = st.t,
                                      !.pax[p].timed_out = FALSE], p, 1))
  /\ UNCHANGED <<outer, random, cfg, created, run, stats>>

\* the request event of a granted request is processed
RequestGranted ==
  /\ Popped("request")
  /\ LET st == Step("request")
         p == Head(queue).p
         s == Head(queue).s
     IN Commit(IF Listening(p, s)
               THEN check([st EXCEPT !.pax[p].reqDone = TRUE], p, s)
               ELSE st)
  /\ UNCHANGED <<outer, random, cfg, created, run, stats>>

\* the timeout env.timeout(remaining_time) is processed
DeadlineFired ==
  /\ Popped("deadline")
  /\ LET st == Step("deadline")
         p == Head(queue).p
         s == Head(queue).s
     IN Commit(IF Listening(p, s)
               THEN check([st EXCEPT !.pax[p].dlDone = TRUE], p, s)
               ELSE st)
  /\ UNCHANGED <<outer, random, cfg, created, run, stats>>

\* the condition is processed and passenger_journey resumes after
\* "result = yield request | env.timeout(remaining_time)"
WaitEnded ==
  /\ Popped("cond")
  /\ Commit(after_wait(Step("cond"), Head(queue).p, Head(queue).s))
  /\ UNCHANGED <<outer, random, cfg, created, run, stats>>

\* the service process (register_passenger, check_security, ...) starts
\* and waits for its service time; env.timeout raises ValueError for a
\* negative time, which ends the service process as failed
ServiceStart ==
  /\ Popped("svcinit")
  /\ \E d \in ServiceTimes(Head(queue).s) :
       LET st == Step("svcinit")
           e == IF d < 0 THEN Ev(st.t, NORMAL, "svcfail", Head(queue).p, Head(queue).s)
                ELSE Ev(st.t + d, NORMAL, "svc", Head(queue).p, Head(queue).s)
       IN Commit([st EXCEPT !.q = schedule(@, e),
                            !.pax[Head(queue).p].svc_from = st.t,
                            !.pax[Head(queue).p].svc_time = d])
  /\ random' = "advanced"
  /\ UNCHANGED <<outer, cfg, created, run, stats>>

\* the failed service process is processed: the exception is thrown into
\* passenger_journey at "yield env.process(...)"
ServiceFailed ==
  /\ Popped("svcfail")
  /\ Commit(after_failure(Step("svcfail"), Head(queue).p, Head(queue).s))
  /\ UNCHANGED <<outer, random, cfg, created, run, stats>>

\* the failed passenger_journey is processed: nothing waits for it, so
\* env.step raises its exception and run_simulation_with_params with it
JourneyFailed ==
  /\ Popped("jfail")
  /\ Commit(Step("jfail"))
  /\ run' = "error"
  /\ UNCHANGED <<outer, random, cfg, created, stats>>

\* the service time is over: the service process ends
ServiceTimeout ==
  /\ Popped("svc")
  /\ LET st == Step("svc")
     IN Commit([st EXCEPT !.q = schedule(@, Ev(st.t, NORMAL, "svcdone",
                                               Head(queue).p, Head(queue).s))])
  /\ UNCHANGED <<outer, random, cfg, created, run, stats>>

\* after stage s the journey draws random.random() for the optional stage
\* that follows it, if one follows it
DrawsAfter(s) == s < LastStage /\ s + 1 \notin Mandatory

\* passenger_journey resumes after "yield env.process(...)"
ServiceDone ==
  /\ Popped("svcdone")
  /\ LET s == Head(queue).s
     IN \E nxt \in (IF s = LastStage THEN {0} ELSE NextStages(s)) :
          Commit(after_service(Step("svcdone"), Head(queue).p, s, nxt))
  /\ random' = IF DrawsAfter(Head(queue).s) THEN "advanced" ELSE random
  /\ UNCHANGED <<outer, cfg, created, run, stats>>

\* a release event is processed: its callback triggers the put queue
ReleaseProcessed ==
  /\ Popped("release")
  /\ Commit(trigger_put(Step("release"), Head(queue).s))
  /\ UNCHANGED <<outer, random, cfg, created, run, stats>>

\* the process event of an ended passenger_journey: nothing waits for it
JourneyEnded ==
  /\ Popped("jdone")
  /\ Commit(Step("jdone"))
  /\ UNCHANGED <<outer, random, cfg, created, run, stats>>

\* mutant: the run is not stopped at the horizon
Horizon_ignored ==
  /\ Popped("until")
  /\ Commit(Step("until"))
  /\ UNCHANGED <<outer, random, cfg, created, run, stats>>

\* the "until" event stops env.run; the statistics are calculated
Horizon ==
  /\ Popped("until")
  /\ Commit(Step("until"))
  /\ run' = "done"
  /\ stats' = calculate_statistics
  /\ UNCHANGED <<outer, random, cfg, created>>

\* mutant: the statistics are kept from one run to the next, as module
\* globals that are not reset would be
NextExperiment_residual ==
  /\ run \in {"done", "error"}
  /\ cfg' \in Configs
  /\ now' = 0
  /\ queue' = StartQueue(cfg')
  /\ users' = [s \in Stages |-> {}]
  /\ putq' = [s \in Stages |-> <<>>]
  /\ pax' = [p \in PIds |-> NewPax]
  /\ created' = 0
  /\ run' = Started(cfg')
  /\ stats' = None
  /\ issued' = 0
  /\ last' = [kind |-> "restart", p |-> served_passengers + rejected_passengers,
              s |-> 0, requested |-> {}, granted |-> {}, released |-> {},
              expired |-> {}]
  /\ UNCHANGED <<wait_times, service_stats, served_passengers,
                 rejected_passengers, timeout_passengers>>
  /\ UNCHANGED <<outer, random>>

\* the loops of run_grid_search call run_simulation_with_params again (no
\* statement of airport_simulator.py seeds the generator), for
\* the next run of a parameter set or for the next parameter set, after a
\* run that returned or raised: new parameters, statistics that are locals
\* of the call, a new environment and new resources.  The entry of the
\* ended run goes to config_results['runs'], a list of run_grid_search that
\* no variable of this module stands for (the loop of
\* run_batch_experiments, which fills results, is RecordExperiment).  For
\* this step last.p is the number of passengers the ended run had counted.
NextExperiment ==
  /\ run \in {"done", "error"}
  /\ cfg' \in Configs
  /\ now' = 0
  /\ queue' = StartQueue(cfg')
  /\ users' = [s \in Stages |-> {}]
  /\ putq' = [s \in Stages |-> <<>>]
  /\ pax' = [p \in PIds |-> NewPax]
  /\ created' = 0
  /\ wait_times' = <<>>
  /\ service_stats' = [k \in StatKeys |-> <<>>]
  /\ served_passengers' = 0
  /\ rejected_passengers' = 0
  /\ timeout_passengers' = 0
  /\ run' = Started(cfg')
  /\ stats' = None
  /\ issued' = 0
  /\ last' = [kind |-> "restart", p |-> served_passengers + rejected_passengers,
              s |-> 0, requested |-> {}, granted |-> {}, released |-> {},
              expired |-> {}]
  /\ UNCHANGED <<outer, random>>

\* main() of src/main.py called again: its parameters are constants of the
\* module but for the capacities, which get_user_input returns; it resets
\* the global statistics, seeds the generator with random.seed(42), the
\* state every run of main starts from, and builds a new environment and
\* new resources.
main ==
  /\ run \in {"done", "error"}
  /\ cfg' \in {c \in Configs : [c EXCEPT !.resources = cfg.resources] = cfg}
  /\ now' = 0
  /\ queue' = StartQueue(cfg')
  /\ users' = [s \in Stages |-> {}]
  /\ putq' = [s \in Stages |-> <<>>]
  /\ pax' = [p \in PIds |-> NewPax]
  /\ created' = 0
  /\ wait_times' = <<>>
  /\ service_stats' = [k \in StatKeys |-> <<>>]
  /\ served_passengers' = 0
  /\ rejected_passengers' = 0
  /\ timeout_passengers' = 0
  /\ random' = "start"
  /\ run' = Started(cfg')
  /\ stats' = None
  /\ issued' = 0
  /\ last' = [kind |-> "main", p |-> served_passengers + rejected_passengers,
              s |-> 0, requested |-> {}, granted |-> {}, released |-> {},
              expired |-> {}]
  /\ UNCHANGED outer

Next ==
  \/ RunAirportStart
  \/ RunAirportArrival
  \/ PassengerStart
  \/ RequestGranted
  \/ DeadlineFired
  \/ WaitEnded
  \/ ServiceStart
  \/ ServiceFailed
  \/ JourneyFailed
  \/ ServiceTimeout
  \/ ServiceDone
  \/ ReleaseProcessed
  \/ JourneyEnded
  \/ Horizon
  \/ NextExperiment
  \/ main

Spec == Init /\ [][Next]_vars

\* env.run(until=SIMULATION_TIME): the loop calls env.step() for as long as
\* the run has not been stopped by the "until" event or by an exception, so
\* an event at the head of the heap is always executed
EventLoop ==
  \/ RunAirportStart
  \/ RunAirportArrival
  \/ PassengerStart
  \/ RequestGranted
  \/ DeadlineFired
  \/ WaitEnded
  \/ ServiceStart
  \/ ServiceFailed
  \/ JourneyFailed
  \/ ServiceTimeout
  \/ ServiceDone
  \/ ReleaseProcessed
  \/ JourneyEnded
  \/ Horizon

(* ------------------------ run_batch_experiments ------------------------ *)
\* the longest batch list
MaxBatch == 2

\* parameter sets of a batch: a run that ends at the horizon, one whose
\* security time can be negative, one with a resource without any unit
BatchConfigs ==
  { Params(1, 2, 1, OneEach, AllOff, Unit),
    Params(2, 3, 1, OneEach, AllOff, [Unit EXCEPT !["security"] = <<-1, 0>>]),
    Params(2, 3, 1, [OneEach EXCEPT ![4] = 0], AllOff, Unit) }

\* the lists json.load can give run_batch_experiments, the empty list included
Batches == UNION {[1..n -> BatchConfigs] : n \in 0..MaxBatch}

\* run_batch_experiments from its start into the first iteration of its
\* loop, which calls run_simulation_with_params(batch_params[0]); with an
\* empty list the loop is not entered and the empty results are saved
BatchInit ==
  /\ batch_params \in Batches
  /\ experiment = 0
  /\ results = <<>>
  /\ cfg = IF batch_params = <<>> THEN Params(1, 2, 1, OneEach, AllOff, Unit)
           ELSE batch_params[1]
  /\ now = 0
  /\ queue = StartQueue(cfg)
  /\ users = [s \in Stages |-> {}]
  /\ putq = [s \in Stages |-> <<>>]
  /\ pax = [p \in PIds |-> NewPax]
  /\ created = 0
  /\ wait_times = <<>>
  /\ service_stats = [k \in StatKeys |-> <<>>]
  /\ served_passengers = 0
  /\ rejected_passengers = 0
  /\ timeout_passengers = 0
  /\ run = IF batch_params = <<>> THEN "saved" ELSE Started(cfg)
  /\ stats = None
  /\ issued = 0
  /\ last = [kind |-> "none", p |-> 0, s |-> 0, requested |-> {}, granted |-> {},
             released |-> {}, expired |-> {}]
  /\ random = "start"
  /\ NoGrid

\* the entry appended for experiment i (counted from 0): that of the try
\* block when run_simulation_with_params has returned (stats, params), that
\* of the except block when it has raised
ResultEntry(i) ==
  IF run = "done"
  THEN [experiment_id |-> i + 1, parameters |-> cfg, statistics |-> stats]
  ELSE [experiment_id |-> i + 1, parameters |-> batch_params[i + 1], error |-> TRUE]

\* mutant: the exception of an experiment is not caught and ends the batch
RecordExperiment_uncaught ==
  /\ run \in {"done", "error"}
  /\ experiment < Len(batch_params)
  /\ results' = IF run = "done" THEN Append(results, ResultEntry(experiment)) ELSE results
  /\ experiment' = experiment + 1
  /\ IF experiment + 1 < Len(batch_params) /\ run = "done"
     THEN /\ cfg' = batch_params[experiment + 2]
          /\ now' = 0
          /\ queue' = StartQueue(cfg')
          /\ users' = [s \in Stages |-> {}]
          /\ putq' = [s \in Stages |-> <<>>]
          /\ pax' = [p \in PIds |-> NewPax]
          /\ created' = 0
          /\ wait_times' = <<>>
          /\ service_stats' = [k \in StatKeys |-> <<>>]
          /\ served_passengers' = 0
          /\ rejected_passengers' = 0
          /\ timeout_passengers' = 0
          /\ run' = Started(cfg')
          /\ stats' = None
          /\ issued' = 0
          /\ last' = [kind |-> "restart", p |-> served_passengers + rejected_passengers,
                      s |-> 0, requested |-> {}, granted |-> {}, released |-> {},
                      expired |-> {}]
     ELSE /\ run' = "saved"
          /\ last' = [kind |-> "saved", p |-> served_passengers + rejected_passengers,
                      s |-> 0, requested |-> {}, granted |-> {}, released |-> {},
                      expired |-> {}]
          /\ UNCHANGED <<cfg, now, queue, users, putq, pax, created, wait_times,
                         service_stats, served_passengers, rejected_passengers,
                         timeout_passengers, stats, issued>>
  /\ UNCHANGED <<random, batch_params, heap, base_params, grid_params, param_list>>

\* the end of one iteration of the loop of run_batch_experiments and the
\* start of the next: run_simulation_with_params has returned or raised,
\* the entry of the experiment is appended, and the next experiment is
\* called with its own parameters; after the last one the results are saved
RecordExperiment ==
  /\ run \in {"done", "error"}
  /\ experiment < Len(batch_params)
  /\ results' = Append(results, ResultEntry(experiment))
  /\ experiment' = experiment + 1
  /\ IF experiment + 1 < Len(batch_params)
     THEN /\ cfg' = batch_params[experiment + 2]
          /\ now' = 0
          /\ queue' = StartQueue(cfg')
          /\ users' = [s \in Stages |-> {}]
          /\ putq' = [s \in Stages |-> <<>>]
          /\ pax' = [p \in PIds |-> NewPax]
          /\ created' = 0
          /\ wait_times' = <<>>
          /\ service_stats' = [k \in StatKeys |-> <<>>]
          /\ served_passengers' = 0
          /\ rejected_passengers' = 0
          /\ timeout_passengers' = 0
          /\ run' = Started(cfg')
          /\ stats' = None
          /\ issued' = 0
          /\ last' = [kind |-> "restart", p |-> served_passengers + rejected_passengers,
                      s |-> 0, requested |-> {}, granted |-> {}, released |-> {},
                      expired |-> {}]
     ELSE /\ run' = "saved"
          /\ last' = [kind |-> "saved", p |-> served_passengers + rejected_passengers,
                      s |-> 0, requested |-> {}, granted |-> {}, released |-> {},
                      expired |-> {}]
          /\ UNCHANGED <<cfg, now, queue, users, putq, pax, created, wait_times,
                         service_stats, served_passengers, rejected_passengers,
                         timeout_passengers, stats, issued>>
  /\ UNCHANGED <<random, batch_params, heap, base_params, grid_params, param_list>>

\* an event can be executed: the run is neither stopped nor aborted and the
\* heap is not empty (the "while True" loop of env.run around env.step)
Runnable == run = "running" /\ queue # <<>>

\* weak fairness of the event loop, WF_vars(EventLoop), written out with
\* Runnable as the enabling condition of EventLoop: the loop of env.run does
\* not pause while an event can be executed
Progress == []<>(~Runnable) \/ []<><<EventLoop>>_vars

\* one call of run_simulation_with_params, whose event loop never pauses;
\* in particular the "until" event at the head of the heap is executed
LiveSpec == Init /\ [][EventLoop]_vars /\ Progress /\ WF_vars(Horizon)

\* run_batch_experiments: the runs of a batch list, one after the other
BatchNext ==
  \/ EventLoop
  \/ RecordExperiment

BatchSpec == BatchInit /\ [][BatchNext]_vars

\* the event loop alone, with a step that stutters where no event can be
\* executed: it has no deadlock, so Runnable does enable EventLoop
LoopSpec == Init /\ [][EventLoop \/ (~Runnable /\ UNCHANGED vars)]_vars


(* --------------------- generate_grid_search_params --------------------- *)
\* A value is a number or a reference to an object of the heap; an object
\* is a dictionary (keys to values) or a list of numbers.  The text json
\* writes and reads is a tree: a number, a list, or a dictionary of trees.
Num(x) == [n |-> x]
Ref(i) == [r |-> i]
IsRef(v) == "r" \in DOMAIN v
\* isinstance(x, dict), of an object and of a value
IsDict(o) == "d" \in DOMAIN o
IsDictValue(h, v) == IsRef(v) /\ IsDict(h[v.r])

\* json.dumps: the text of a value, which holds no object identity
RECURSIVE dumps(_, _)
dumps(h, v) ==
  IF ~IsRef(v) THEN v
  ELSE IF IsDict(h[v.r])
       THEN [d |-> [k \in DOMAIN h[v.r].d |-> dumps(h, h[v.r].d[k])]]
       ELSE h[v.r]

\* json.loads (and json.load): every dictionary and list of the text becomes
\* a new object
RECURSIVE loads(_, _)
RECURSIVE loads_items(_, _, _, _)
loads(h, t) ==
  IF "n" \in DOMAIN t THEN [h |-> h, v |-> t]
  ELSE IF "l" \in DOMAIN t THEN [h |-> Append(h, t), v |-> Ref(Len(h) + 1)]
  ELSE LET items == loads_items(h, t.d, DOMAIN t.d, <<>>)
       IN [h |-> Append(items.h, [d |-> items.f]), v |-> Ref(Len(items.h) + 1)]
loads_items(h, f, keys, acc) ==
  IF keys = {} THEN [h |-> h, f |-> acc]
  ELSE LET k == CHOOSE x \in keys : TRUE
           x == loads(h, f[k])
       IN loads_items(x.h, f, keys \ {k}, [j \in DOMAIN acc \cup {k} |->
                                            IF j = k THEN x.v ELSE acc[j]])

\* _update_params_recursive(target, updates): target is a dictionary of the
\* heap, changed in place; updates are the items of a dictionary
RECURSIVE update_params_recursive(_, _, _)
RECURSIVE update_items(_, _, _, _)
update_params_recursive(h, target, updates) ==
  update_items(h, target, updates, DOMAIN updates)
update_items(h, target, updates, keys) ==
  IF keys = {} THEN h
  ELSE LET key == CHOOSE x \in keys : TRUE
           value == updates[key]
           items == h[target].d
           h2 == IF /\ key \in DOMAIN items
                    /\ IsDictValue(h, items[key])
                    /\ IsDictValue(h, value)
                 THEN update_params_recursive(h, items[key].r, h[value.r].d)
                 ELSE [h EXCEPT ![target] =
                         [d |-> [k \in DOMAIN items \cup {key} |->
                                   IF k = key THEN value ELSE items[k]]]]
       IN update_items(h2, target, updates, keys \ {key})

\* a grid is the sequence of the items of grid_params: <<key, values>>
GridKeys(grid) == {grid[j][1] : j \in 1..Len(grid)}
RECURSIVE Stride(_, _)
Stride(grid, j) == IF j >= Len(grid) THEN 1 ELSE Len(grid[j + 1][2]) * Stride(grid, j + 1)
\* len(combinations): itertools.product(*values)
Total(grid) == IF grid = <<>> THEN 1 ELSE Len(grid[1][2]) * Stride(grid, 1)
\* combinations[i], i counted from 0: dict(zip(keys, v)) for the i-th tuple
\* of the product, whose last position varies fastest
Combination(grid, i) ==
  [k \in GridKeys(grid) |->
     LET j == CHOOSE x \in 1..Len(grid) : grid[x][1] = k
     IN grid[j][2][((i \div Stride(grid, j)) % Len(grid[j][2])) + 1]]

\* the loop of generate_grid_search_params from combination i on
RECURSIVE param_loop(_, _, _, _, _)
param_loop(h, base, grid, i, acc) ==
  IF i = Total(grid) THEN [raised |-> FALSE, h |-> h, value |-> acc]
  ELSE LET params == loads(h, dumps(h, base))
           h2 == update_params_recursive(params.h, params.v.r, Combination(grid, i))
       IN param_loop(h2, base, grid, i + 1, Append(acc, params.v))

\* generate_grid_search_params(base_params, grid_params); zip(*items) of an
\* empty grid gives nothing to unpack into keys and values: ValueError
generate_grid_search_params(h, base, grid) ==
  IF grid = <<>> THEN [raised |-> TRUE, h |-> h, value |-> <<>>]
  ELSE param_loop(h, base, grid, 0, <<>>)

\* the texts of the two files run_grid_search loads
N(x) == [n |-> x]
L(s) == [l |-> s]
D(f) == [d |-> f]
BaseTrees ==
  { D("max_time" :> N(1)),
    D("max_time" :> N(1) @@ "service_times" :> D("security" :> L(<<1, 5>>))),
    D("max_time" :> N(1) @@
      "service_times" :> D("security" :> L(<<1, 5>>) @@ "registration" :> L(<<1, 2>>))),
    D("max_time" :> N(1) @@ "service_times" :> N(0)),
    D("service_times" :> D("security" :> N(1))) }
MaxTimeValues == { <<>>, <<N(2)>>, <<N(2), N(3)>> }
ServiceTimesValues ==
  { <<D("security" :> L(<<2, 3>>))>>,
    <<D("security" :> L(<<2, 3>>)), D("registration" :> L(<<4, 4>>))>>,
    <<N(7)>>,
    <<L(<<2, 3>>)>> }
GridTrees ==
  {<<>>}
  \cup {<< <<"max_time", a>> >> : a \in MaxTimeValues}
  \cup {<< <<"service_times", b>> >> : b \in ServiceTimesValues}
  \cup {<< <<"max_time", a>>, <<"service_times", b>> >> :
          a \in MaxTimeValues, b \in ServiceTimesValues}
  \cup {<< <<"service_times", b>>, <<"max_time", a>> >> :
          a \in MaxTimeValues, b \in ServiceTimesValues}

\* load_params_from_json of the grid file: the values of every list
RECURSIVE load_values(_, _, _)
load_values(h, trees, acc) ==
  IF trees = <<>> THEN [h |-> h, vs |-> acc]
  ELSE LET x == loads(h, Head(trees))
       IN load_values(x.h, Tail(trees), Append(acc, x.v))
RECURSIVE load_grid(_, _, _)
load_grid(h, gt, acc) ==
  IF gt = <<>> THEN [h |-> h, grid |-> acc]
  ELSE LET x == load_values(h, Head(gt)[2], <<>>)
       IN load_grid(x.h, Tail(gt), Append(acc, <<Head(gt)[1], x.vs>>))

\* run_grid_search up to its call of generate_grid_search_params: the two
\* files are loaded; no simulation has been run yet
GridInit ==
  /\ \E bt \in BaseTrees, gt \in GridTrees :
       LET b == loads(<<>>, bt)
           g == load_grid(b.h, gt, <<>>)
       IN /\ heap = g.h
          /\ base_params = b.v
          /\ grid_params = g.grid
  /\ param_list = Pending
  /\ NoBatch
  /\ cfg = Params(1, 2, 1, OneEach, AllOff, Unit)
  /\ now = 0
  /\ queue = <<>>
  /\ users = [s \in Stages |-> {}]
  /\ putq = [s \in Stages |-> <<>>]
  /\ pax = [p \in PIds |-> NewPax]
  /\ created = 0
  /\ wait_times = <<>>
  /\ service_stats = [k \in StatKeys |-> <<>>]
  /\ served_passengers = 0
  /\ rejected_passengers = 0
  /\ timeout_passengers = 0
  /\ run = "idle"
  /\ stats = None
  /\ issued = 0
  /\ last = [kind |-> "none", p |-> 0, s |-> 0, requested |-> {}, granted |-> {},
             released |-> {}, expired |-> {}]
  /\ random = "start"

\* the call param_combinations = generate_grid_search_params(base_params,
\* grid_params) of run_grid_search
GenerateGridSearchParams ==
  /\ ~param_list.returned /\ ~param_list.raised
  /\ LET res == generate_grid_search_params(heap, base_params, grid_params)
     IN /\ heap' = res.h
        /\ param_list' = [returned |-> ~res.raised, raised |-> res.raised,
                          value |-> res.value]
  /\ UNCHANGED <<cfg, now, queue, users, putq, pax, created, wait_times,
                 service_stats, served_passengers, rejected_passengers,
                 timeout_passengers, run, stats, issued, last,
                 random, batch_params, experiment, results, base_params, grid_params>>

GridNext == GenerateGridSearchParams

GridSpec == GridInit /\ [][GridNext]_vars

(* ======================================================================= *)
(*                               Claims                                    *)
(* ======================================================================= *)
\* the passengers run_airport has created a process for: env.process(...)
\* has been called with their id, whether or not the process has started
Created == {p \in PIds : pax[p].pc # "new"}
\* the passengers whose journey has begun: passenger_journey has taken its
\* first step and set arrival_time = env.now
Arrived == {p \in PIds : pax[p].pc \notin {"new", "init"}}
Terminal == {p \in PIds : pax[p].pc \in {"served", "expired"}}
Deadline(p) == pax[p].arrival + MAX_WAIT_TIME
EntryExpired(l) == {x \in l.expired : x[3] = "entry"}
WaitExpired(l) == {x \in l.expired : x[3] = "wait"}
\* parameters of scenario A: a unit of every resource for every passenger,
\* a deadline no sojourn inside the horizon can reach, no optional stage
ScenarioA ==
  /\ \A s \in Stages : Capacity(s) >= MaxPassengers
  /\ MAX_WAIT_TIME >= SIMULATION_TIME
  /\ \A s \in Stages \ Mandatory : cfg.probabilities[s] = 0

\* parameters of scenario B: one registration desk, two passengers at time
\* 0, no optional stage, registration times drawn from (5, 5)
ScenarioB ==
  /\ Capacity(1) = 1
  /\ INITIAL_PASSENGERS = 2
  /\ \A s \in Stages \ Mandatory : cfg.probabilities[s] = 0
  /\ cfg.service_times["registration"] = <<5, 5>>
\* the service process of p's registration has started, and when
RegStarted(p) ==
  \/ pax[p].log # <<>>
  \/ /\ pax[p].stage = 1
     /\ \E i \in 1..Len(queue) :
          queue[i].kind \in {"svc", "svcdone"} /\ queue[i].p = p /\ queue[i].s = 1
RegFrom(p) == IF pax[p].log # <<>> THEN pax[p].log[1].from ELSE pax[p].svc_from
RegTime(p) == IF pax[p].log # <<>> THEN pax[p].log[1].time ELSE pax[p].svc_time
\* the sum of the durations recorded for the stages p completed
Durations(p) == Sum([i \in 1..Len(pax[p].log) |-> pax[p].log[i].duration])
\* the stages p completed, in the order their durations were recorded
Completed(p) == [i \in 1..Len(pax[p].log) |-> pax[p].log[i].s]
Increasing(seq) == \A i \in 1..Len(seq) : \A j \in 1..Len(seq) : i < j => seq[i] < seq[j]
\* the passengers that completed stage s
CompletedBy(s) == {p \in PIds : \E i \in 1..Len(pax[p].log) : pax[p].log[i].s = s}
\* the passengers in service at stage s
InService(s) == {p \in PIds : pax[p].pc = "inproc" /\ pax[p].stage = s}

\* C1: at every point of a run the number of passengers holding a grant on
\* a resource is between 0 and the capacity of the resource.
C1_InUseWithinCapacity ==
  \A s \in Stages : Cardinality(users[s]) >= 0 /\ Cardinality(users[s]) <= Capacity(s)

\* a resource is full while a passenger waits for it
C1_Witness ==
  \E s \in Stages : Cardinality(users[s]) = Capacity(s) /\ Len(putq[s]) > 0

\* C2: a request a passenger waited on is resolved exactly once: no request
\* is both granted by the resource (the passenger is among its users) and
\* treated by the passenger as timed out.
C2_GrantedNeverTimedOut ==
  \A x \in WaitExpired(last) :
    \A r \in last.released : (r.p = x[1] /\ r.s = x[2]) => ~r.held

\* C3 (as claimed): when a unit is released for a waiting passenger at the
\* very time of its deadline, the grant wins and the passenger is not
\* marked timed out.
C3_GrantWinsTie ==
  \A p \in PIds : pax[p].tie => pax[p].pc # "expired"

\* C3 (amended): when a unit of the resource is released at the very time of
\* the deadline of the passenger at the head of its queue, the deadline wins:
\* the passenger is never served at that stage and ends timed out.
C3_DeadlineWinsTie ==
  \A p \in PIds :
    pax[p].tie =>
      \/ pax[p].pc = "waiting" /\ now = Deadline(p)
      \/ pax[p].pc = "expired" /\ pax[p].timed_out

\* a passenger expired although a unit was released for it at its deadline
C3_Witness ==
  \E p \in PIds : pax[p].tie /\ pax[p].pc = "expired" /\ pax[p].stage = 3

\* C4 (as claimed): a passenger whose remaining time is <= 0 on reaching a
\* stage expires without issuing a request, and the step leaves the users
\* and the wait queue of the resource as they were.
C4_NoRequestOnExpiry ==
  [][\A x \in EntryExpired(last') :
       /\ <<x[1], x[2]>> \notin last'.requested
       /\ users'[x[2]] = users[x[2]]
       /\ putq'[x[2]] = putq[x[2]]]_vars

\* C4 (amended): the request is issued before the deadline check; a
\* passenger whose remaining time is <= 0 expires in the same step, its
\* request withdrawn: it is released, never waits, and is left neither among
\* the users nor in the wait queue of the resource.
C4_RequestWithdrawnOnExpiry ==
  \A x \in EntryExpired(last) :
    /\ <<x[1], x[2]>> \in last.requested
    /\ \E r \in last.released : r.p = x[1] /\ r.s = x[2]
    /\ x[1] \notin users[x[2]]
    /\ ~InSeq(putq[x[2]], x[1])
    /\ pax[x[1]].pc = "expired"
    /\ ~\E i \in 1..Len(queue) :
          queue[i].kind \in {"deadline", "cond"} /\ queue[i].p = x[1] /\ queue[i].s = x[2]

\* a passenger expired on reaching a stage later than registration, whose
\* request had been granted at once
C4_Witness ==
  \E x \in EntryExpired(last) : x[2] > 1 /\ <<x[1], x[2]>> \in last.granted

\* C5: a wait queue is served first in, first out: a passenger is never
\* granted a resource while a passenger that requested it earlier still waits.
C5_Fifo ==
  [][\A g \in last'.granted :
       \A i \in 1..Len(putq[g[2]]) :
         LET a == putq[g[2]][i]
         IN a # g[1] => pax'[a].ticket > pax'[g[1]].ticket]_vars

\* a release granted the head of a queue in which another passenger waits on
C5_Witness ==
  /\ last.kind = "release"
  /\ \E g \in last.granted : Len(putq[g[2]]) > 0

\* C6: every passenger that reached Served or Expired was counted exactly
\* once, in served or in rejected; the others are counted in neither.
C6_Conservation ==
  /\ served_passengers = Cardinality({p \in PIds : pax[p].pc = "served"})
  /\ rejected_passengers = Cardinality({p \in PIds : pax[p].pc = "expired"})
  /\ served_passengers + rejected_passengers = Cardinality(Terminal)
  /\ \A p \in PIds : pax[p].recorded = IF p \in Terminal THEN 1 ELSE 0

\* at the horizon one passenger is served, one rejected and one mid-journey
C6_Witness ==
  /\ run = "done"
  /\ served_passengers > 0
  /\ rejected_passengers > 0
  /\ \E p \in PIds : pax[p].pc \in {"waiting", "inproc"}

\* C8: no passenger is created at or beyond the horizon and no event is
\* executed at or beyond it.
C8_NothingBeyondHorizon ==
  /\ \A p \in Created :
       IF p \in Arrived THEN pax[p].arrival < SIMULATION_TIME
       ELSE now < SIMULATION_TIME
  /\ now <= SIMULATION_TIME
  /\ last.kind \notin {"none", "until"} => now < SIMULATION_TIME

\* the run ended with the next arrival pending at or beyond the horizon
C8_Witness ==
  /\ run = "done"
  /\ \E i \in 1..Len(queue) :
       queue[i].kind = "arrive" /\ queue[i].time >= SIMULATION_TIME

\* C9 (as claimed): releasing a resource for a requester that holds no grant
\* on it aborts the run.
C9_ReleaseWithoutGrantAborts ==
  (\E r \in last.released : ~r.held) => run = "aborted"

\* C9 (amended): releasing a resource for a requester that holds no grant on
\* it changes nothing in the users of the resource, and the run goes on.
C9_ReleaseWithoutGrantNoOp ==
  \A r \in last.released : ~r.held => (r.after = r.before /\ run = "running")

\* a passenger that timed out in the queue released a resource another holds
C9_Witness ==
  \E r \in last.released :
    ~r.held /\ r.before # {} /\ <<r.p, r.s, "wait">> \in last.expired

\* C10: the sojourn-time list has one entry per served passenger, the run
\* returns None exactly when no passenger was served, and no divisor of a
\* derived metric is zero.
C10_NoDataIffNoneServed ==
  /\ Len(wait_times) = served_passengers
  /\ run = "done" =>
       /\ (stats = None) <=> (served_passengers = 0)
       /\ stats # None => \A d \in stats.divisors : d # 0

\* the run ended with rejected passengers only and returned None
C10_Witness ==
  run = "done" /\ stats = None /\ rejected_passengers > 0 /\ served_passengers = 0

\* C11: every utilization value of a result lies in [0, 1]: the sum of the
\* times recorded for a resource never exceeds its capacity times the
\* horizon.
C11_UtilizationWithinUnit ==
  (run = "done" /\ stats # None) =>
    \A k \in DOMAIN stats.utilization :
      /\ stats.utilization[k][1] >= 0
      /\ stats.utilization[k][1] <= stats.utilization[k][2]

\* C12 (as claimed): the utilization mapping of a result has one entry for
\* each of the eight named resources, toilet_before and toilet_after apart,
\* whether or not the resource completed a stage.
C12_EntryPerResource ==
  (run = "done" /\ stats # None) =>
    DOMAIN stats.utilization = {StageName(s) : s \in Stages}

\* C12 (amended): the utilization mapping of a result has one entry for each
\* of the seven statistics keys (both toilets under "toilet") for which some
\* passenger completed a stage, and none for the other keys; the three
\* mandatory stages always have one.
C12_EntryPerKeyWithTimes ==
  (run = "done" /\ stats # None) =>
    /\ DOMAIN stats.utilization \subseteq StatKeys
    /\ \A k \in StatKeys :
         k \in DOMAIN stats.utilization <=>
           \E p \in PIds : \E i \in 1..Len(pax[p].log) : StatKey(pax[p].log[i].s) = k
    /\ {StatKey(s) : s \in Mandatory} \subseteq DOMAIN stats.utilization

\* a result with an entry for customs and none for the toilets
C12_Witness ==
  /\ run = "done" /\ stats # None
  /\ "customs" \in DOMAIN stats.utilization
  /\ "toilet" \notin DOMAIN stats.utilization

\* C13 (as claimed): with a maximum wait of 0 every created passenger has
\* expired at registration, and rejected = timeout = the number of created
\* passengers in every state of the run.
C13_CountersEqualCreated ==
  MAX_WAIT_TIME = 0 =>
    /\ served_passengers = 0
    /\ rejected_passengers = Cardinality(Created)
    /\ timeout_passengers = Cardinality(Created)
    /\ \A p \in Created : pax[p].pc = "expired" /\ pax[p].stage = 1

\* C13 (amended): with a maximum wait of 0 every passenger expires at
\* registration at the instant it arrives, in the first step of its journey,
\* without waiting and without service; nobody is served and rejected =
\* timeout = the number of passengers whose journey has begun.  A created
\* passenger whose journey has not begun was created at the current instant
\* and the start of its process is pending at that instant, so rejected =
\* timeout = the number of created passengers whenever no start is pending,
\* and when the run has ended.
C13_ZeroWaitAllExpire ==
  MAX_WAIT_TIME = 0 =>
    /\ served_passengers = 0
    /\ rejected_passengers = Cardinality(Arrived)
    /\ timeout_passengers = Cardinality(Arrived)
    /\ Cardinality(Created) = created
    /\ \A p \in Created \ Arrived :
         \E i \in 1..Len(queue) :
           queue[i].kind = "init" /\ queue[i].p = p /\ queue[i].time = now
    /\ (Created = Arrived \/ run # "running") => rejected_passengers = created
    /\ \A p \in Arrived :
         /\ pax[p].pc = "expired" /\ pax[p].stage = 1 /\ pax[p].timed_out
         /\ pax[p].start = pax[p].arrival
         /\ pax[p].log = <<>> /\ pax[p].sojourn = <<>>
    /\ \A s \in Stages : users[s] = {} /\ putq[s] = <<>>
    /\ \A k \in StatKeys : service_stats[k] = <<>>
    /\ wait_times = <<>>

\* every passenger of a run with maximum wait 0 has expired, one of them
\* having arrived after the start
C13_Witness ==
  /\ MAX_WAIT_TIME = 0
  /\ run = "done"
  /\ rejected_passengers = MaxPassengers
  /\ \E p \in PIds : pax[p].arrival > 0

\* C14: in scenario A no request ever waits and no passenger is ever
\* rejected: rejected = timeout = 0 in every state, and the relative
\* throughput of a result is 1.
C14_ScenarioANoRejection ==
  ScenarioA =>
    /\ rejected_passengers = 0 /\ timeout_passengers = 0
    /\ \A p \in PIds : pax[p].pc # "expired" /\ ~pax[p].timed_out
    /\ \A s \in Stages : putq[s] = <<>>
    /\ (run = "done" /\ stats # None) =>
         stats.relative_throughput[1] = stats.relative_throughput[2]

\* a run of scenario A ended with two passengers served and one on its way
C14_Witness ==
  /\ ScenarioA
  /\ run = "done" /\ stats # None
  /\ stats.served_passengers = 2
  /\ \E p \in PIds : pax[p].pc \in {"waiting", "inproc"}

\* C15: in scenario B the second passenger's registration service starts
\* when the first passenger leaves registration and never earlier; when the
\* registration time drawn for the first passenger is 5, the first
\* passenger completes registration at time 5 and the second passenger's
\* registration service starts at time 5.
C15_ScenarioBSecondStartsAtFive ==
  ScenarioB =>
    /\ RegStarted(0) => RegFrom(0) = 0
    /\ pax[0].log # <<>> =>
         /\ pax[0].log[1].s = 1
         /\ pax[0].log[1].to >= 5
         /\ (RegTime(0) = 5 => pax[0].log[1].to = 5)
    /\ RegStarted(1) =>
         /\ pax[0].log # <<>>
         /\ RegFrom(1) = pax[0].log[1].to
         /\ RegFrom(1) >= 5
    /\ (RegStarted(0) /\ RegTime(0) = 5 /\ now > 5) => (RegStarted(1) /\ RegFrom(1) = 5)

\* the first passenger left registration at 5 and the second passenger's
\* registration service has started
C15_Witness ==
  /\ ScenarioB
  /\ pax[0].log # <<>> /\ pax[0].log[1].to = 5
  /\ pax[1].arrival = 0 /\ pax[1].pc = "inproc" /\ pax[1].stage = 1
  /\ RegStarted(1) /\ RegFrom(1) = 5

\* the state a run starts from, but for the generator of the random module
FreshRun ==
    /\ served_passengers = 0 /\ rejected_passengers = 0 /\ timeout_passengers = 0
    /\ wait_times = <<>>
    /\ \A k \in StatKeys : service_stats[k] = <<>>
    /\ now = 0
    /\ \A s \in Stages : users[s] = {} /\ putq[s] = <<>>
    /\ queue = StartQueue(cfg)
    /\ created = 0
    /\ \A p \in PIds : pax[p] = NewPax
    /\ run = Started(cfg) /\ stats = None

\* the statistics of a run hold what the passengers of this run have done
\* and nothing else: the counters count its terminal passengers, wait_times
\* its served passengers, service_stats its completed stages; only its
\* passengers hold or await a resource, and its clock is within its horizon
OwnStatistics ==
  /\ served_passengers = Cardinality({p \in Created : pax[p].pc = "served"})
  /\ rejected_passengers = Cardinality({p \in Created : pax[p].pc = "expired"})
  /\ timeout_passengers = rejected_passengers
  /\ Len(wait_times) = served_passengers
  /\ LET done == UNION {{<<p, i>> : i \in 1..Len(pax[p].log)} : p \in Created}
     IN \A k \in StatKeys :
          Len(service_stats[k]) =
            Cardinality({x \in done : StatKey(pax[x[1]].log[x[2]].s) = k})
  /\ \A s \in Stages : users[s] \subseteq Created
  /\ \A s \in Stages : \A i \in 1..Len(putq[s]) : putq[s][i] \in Created
  /\ Cardinality(Created) = created
  /\ now <= SIMULATION_TIME

\* C16 (as claimed): a run leaves no residual state: a run started after
\* another run starts from the state the first run of the process started
\* from, the generator of the random module included, so that its result
\* cannot depend on the runs before it.
C16_NoResidualState ==
  last.kind \in {"restart", "main"} => (FreshRun /\ random = "start")

\* C16 (amended): every run, the first or a later one, starts from empty
\* statistics, a clock at 0 and resources nobody holds or waits for, and in
\* every state of it the statistics hold what its own passengers have done.
\* The generator of the random module is the one thing a run of
\* run_simulation_with_params inherits: a later run finds it in the state
\* the run before it left it in; within a run a draw advances it and
\* nothing puts it back.  A run of main of src/main.py starts with the
\* generator seeded anew, in the state the first run started with.
C16_RunStartsFresh ==
  [][/\ last'.kind = "restart" => (FreshRun' /\ random' = random)
     /\ last'.kind = "main" => (FreshRun' /\ random' = "start")
     /\ OwnStatistics'
     /\ (random = "advanced" /\ last'.kind # "main") => random' = "advanced"
     /\ (last'.kind \in {"geninit", "arrive", "svcinit"}) => random' = "advanced"]_vars

\* a run starts after a run that had counted every passenger, and finds the
\* generator advanced by the draws of that run
C16_Witness ==
  /\ last.kind = "restart" /\ last.p = MaxPassengers /\ served_passengers = 0
  /\ random = "advanced"

\* C17: a parameter outside its domain is reported before the clock
\* starts: the call never raises an error once an event of the run has
\* been executed.
C17_NoErrorAfterStart ==
  run = "error" => (last.kind \in {"none", "restart", "main"} /\ now = 0)

\* C18: rejected = timeout in every state: both count the passengers that
\* expired, each of them timed out at or after its deadline; nothing else is
\* ever counted as rejected.
C18_RejectedEqualsTimeout ==
  /\ rejected_passengers = timeout_passengers
  /\ rejected_passengers = Cardinality({p \in PIds : pax[p].pc = "expired"})
  /\ \A p \in PIds :
       pax[p].pc = "expired" => (pax[p].timed_out /\ now >= Deadline(p))
  /\ \A p \in PIds : pax[p].timed_out => pax[p].pc = "expired"

\* two passengers were rejected and one served
C18_Witness ==
  rejected_passengers = 2 /\ timeout_passengers = 2 /\ served_passengers = 1

\* C19: for every served passenger the recorded sojourn time is >= 0 and
\* the durations recorded for the stages it completed sum to no more than
\* its sojourn time.
C19_DurationsWithinSojourn ==
  /\ \A i \in 1..Len(wait_times) : wait_times[i] >= 0
  /\ \A p \in PIds :
       /\ pax[p].pc = "served" <=> pax[p].sojourn # <<>>
       /\ pax[p].sojourn # <<>> =>
            /\ Len(pax[p].sojourn) = 1
            /\ pax[p].sojourn[1] >= 0
            /\ \E i \in 1..Len(wait_times) : wait_times[i] = pax[p].sojourn[1]
            /\ Durations(p) <= pax[p].sojourn[1]

\* a passenger was served after waiting in the queue of a stage
C19_Witness ==
  \E p \in PIds :
    /\ pax[p].pc = "served" /\ pax[p].sojourn[1] > 0
    /\ \E i \in 1..Len(pax[p].log) : pax[p].log[i].grant > pax[p].log[i].start

\* C20: the time a completed stage adds to the total of its resource is the
\* time between the grant of the request and its release; the time the
\* passenger waited in the queue is not part of it.
C20_BusyTimeIsHoldTime ==
  \A p \in PIds : \A i \in 1..Len(pax[p].log) :
    pax[p].log[i].duration = pax[p].log[i].to - pax[p].log[i].grant

\* C21 (as claimed): the passenger at the head of the wait queue when a
\* unit of the resource is released is granted the unit at that time and
\* does not expire at the stage.
C21_HeadGrantedOnRelease ==
  \A p \in PIds : pax[p].freed => pax[p].pc # "expired"

\* C21 (amended): work conservation.  Every release schedules the trigger of
\* the wait queue for the same virtual time; when it runs with a free unit
\* and a non-empty queue the passenger then at the head is granted; the
\* passenger that was at the head when the unit was released misses the
\* grant, or gets it and is timed out all the same, only if its deadline is
\* that very instant; and virtual time never advances while a resource has
\* a free unit and a non-empty wait queue.
C21_WorkConserving ==
  [][/\ \A p \in PIds : (pax'[p].freed /\ pax'[p].pc = "expired") => pax'[p].tie
     /\ \A r \in last'.released :
          \E i \in 1..Len(queue') :
            queue'[i].kind = "release" /\ queue'[i].s = r.s /\ queue'[i].time = now'
     /\ last'.kind = "release" =>
          LET s == last'.s
          IN (Len(putq[s]) > 0 /\ Cardinality(users[s]) < Capacity(s)) =>
               /\ now' = now
               /\ Head(putq[s]) \in users'[s]
               /\ <<Head(putq[s]), s>> \in last'.granted
               /\ putq'[s] = Tail(putq[s])
     /\ now' > now =>
          \A s \in Stages : ~(Len(putq[s]) > 0 /\ Cardinality(users[s]) < Capacity(s))]_vars

\* the trigger of a release has granted the head of a queue, after time 0,
\* at the time the passenger it was released by left the stage
C21_Witness ==
  /\ last.kind = "release" /\ now > 0
  /\ \E g \in last.granted :
       /\ g[2] = last.s
       /\ pax[g[1]].granted_at = now /\ pax[g[1]].start < now
       /\ \E i \in 1..Len(pax[last.p].log) :
            pax[last.p].log[i].s = last.s /\ pax[last.p].log[i].to = now

\* C22: stages are attempted in the fixed order of passenger_journey: the
\* stages a passenger requested are strictly increasing, start with
\* registration and never pass over a mandatory stage; the stages it
\* completed are the stages it requested, but possibly the last; a served
\* passenger completed everything it requested, with registration, security
\* and boarding among it exactly once.
C22_StageOrder ==
  \A p \in PIds :
    LET path == pax[p].path
        done == Completed(p)
    IN /\ Increasing(path)
       /\ \A i \in 1..Len(path) : path[i] \in Stages
       /\ path # <<>> => path[1] = 1
       /\ \A i \in 1..(Len(path) - 1) :
            \A m \in Mandatory : ~(path[i] < m /\ m < path[i + 1])
       /\ Len(done) <= Len(path) /\ Len(done) >= Len(path) - 1
       /\ \A i \in 1..Len(done) : done[i] = path[i]
       /\ pax[p].pc = "served" =>
            /\ done = path
            /\ \A m \in Mandatory :
                 Cardinality({i \in 1..Len(done) : done[i] = m}) = 1

\* a passenger was served by way of an optional stage
C22_Witness ==
  \E p \in PIds :
    /\ pax[p].pc = "served"
    /\ \E i \in 1..Len(pax[p].log) : pax[p].log[i].s \notin Mandatory

\* C23: an expired passenger stays expired and issues no further request,
\* and from the step in which it expires on it is neither in the wait queue
\* nor among the users of any resource and is never granted a unit.
C23_ExpiredIsGone ==
  [][last'.kind \notin {"restart", "main"} =>
       \A p \in PIds :
         /\ pax[p].pc = "expired" =>
              /\ pax'[p].pc = "expired"
              /\ pax'[p].path = pax[p].path
              /\ \A s \in Stages : <<p, s>> \notin last'.requested \cup last'.granted
         /\ pax'[p].pc = "expired" =>
              \A s \in Stages : p \notin users'[s] /\ ~InSeq(putq'[s], p)]_vars

\* a passenger expired in a wait queue, and a passenger that had queued
\* behind it was granted the resource later
C23_Witness ==
  \E p \in PIds : \E w \in PIds :
    /\ pax[p].pc = "expired" /\ ~pax[p].triggered
    /\ w # p /\ pax[w].stage = pax[p].stage /\ pax[w].ticket > pax[p].ticket
    /\ pax[w].start < Deadline(p)
    /\ pax[w].triggered /\ pax[w].granted_at >= Deadline(p)

\* C24: a duration is recorded only for a stage whose service ran its full
\* time: every list of service_stats has one entry per completed stage of
\* its key, each completed stage was requested, granted and served for the
\* time drawn, and the stage a passenger expired at, failed at or is still
\* in contributes nothing.
C24_OnlyCompletedStagesRecorded ==
  /\ \A s \in Stages \ {2, 7} :
       Len(service_stats[StatKey(s)]) = Cardinality(CompletedBy(s))
  /\ Len(service_stats["toilet"]) =
       Cardinality(CompletedBy(2)) + Cardinality(CompletedBy(7))
  /\ \A p \in PIds :
       /\ \A i \in 1..Len(pax[p].log) :
            LET r == pax[p].log[i]
            IN /\ \E j \in 1..Len(pax[p].path) : pax[p].path[j] = r.s
               /\ r.start <= r.grant /\ r.grant <= r.from
               /\ r.to = r.from + r.time
               /\ r.duration = r.to - r.start
               /\ \E j \in 1..Len(service_stats[StatKey(r.s)]) :
                    service_stats[StatKey(r.s)][j] = r.duration
       /\ pax[p].pc \in {"expired", "failed", "waiting", "inproc"} =>
            \A i \in 1..Len(pax[p].log) : pax[p].log[i].s # pax[p].stage

\* at the horizon a passenger has expired in a queue, another is in service,
\* and an optional stage was skipped by a passenger that recorded durations
C24_Witness ==
  /\ run = "done"
  /\ \E p \in PIds : pax[p].pc = "expired" /\ pax[p].start < now /\ pax[p].log # <<>>
  /\ \E p \in PIds : pax[p].pc = "inproc"
  /\ \E p \in PIds : \E j \in 1..(Len(pax[p].path) - 1) :
       \E s \in Stages :
         pax[p].path[j] < s /\ s < pax[p].path[j + 1] /\ cfg.probabilities[s] > 0

\* C25 (as claimed): the run stops only when no scheduled event with a fire
\* time <= the horizon is left: every such event was executed.
C25_AllUpToHorizonExecuted ==
  run = "done" => \A i \in 1..Len(queue) : queue[i].time > SIMULATION_TIME

\* C25 (amended): events are executed in non-decreasing order of fire time,
\* the executed event being the earliest scheduled; every event with a fire
\* time before the horizon is executed and none with a fire time at or
\* after the horizon; the run ends with the clock at the horizon.
C25_AllBeforeHorizonExecuted ==
  [][last'.kind \notin {"restart", "main"} =>
       /\ now' >= now /\ now' <= SIMULATION_TIME
       /\ \A i \in 1..Len(queue) : queue[i].time >= now'
       /\ \A i \in 1..Len(queue') : queue'[i].time >= now'
       /\ last'.kind # "until" => now' < SIMULATION_TIME
       /\ run' = "done" =>
            /\ last'.kind = "until" /\ now' = SIMULATION_TIME
            /\ \A i \in 1..Len(queue') : queue'[i].time >= SIMULATION_TIME]_vars

\* the run ended with a service whose time ends exactly at the horizon
C25_Witness ==
  /\ run = "done"
  /\ \E i \in 1..Len(queue) :
       queue[i].kind = "svc" /\ queue[i].time = SIMULATION_TIME

\* C26 (as claimed): every passenger after the initial population arrives
\* at an instant strictly later than the passenger created before it (and
\* so later than time 0).
C26_LaterArrivalsStrictlyLater ==
  \A p \in Arrived :
    p >= INITIAL_PASSENGERS =>
      /\ pax[p].arrival > 0
      /\ p > 0 => pax[p].arrival > pax[p - 1].arrival

\* C26 (amended): the generator creates the initial population first, ids
\* 0..N-1, all arriving at time 0; every later passenger is created one at
\* a time by a generated arrival, takes the next unused id and arrives no
\* earlier than the passenger before it (the interarrival time drawn can be
\* 0), after every passenger created before it has started.
C26_InitialPopulationFirst ==
  [][last'.kind \notin {"restart", "main"} =>
       /\ Created' = {p \in PIds : p < created'}
       /\ \A p \in Arrived' : p < INITIAL_PASSENGERS => pax'[p].arrival = 0
       /\ \A p \in PIds : \A w \in Arrived' :
            p < w => (p \in Arrived' /\ pax'[p].arrival <= pax'[w].arrival)
       /\ last'.kind = "geninit" => (created = 0 /\ created' = INITIAL_PASSENGERS)
       /\ last'.kind = "arrive" =>
            /\ created >= INITIAL_PASSENGERS /\ created' = created + 1
            /\ pax[created].pc = "new" /\ pax'[created].pc = "init"
            /\ Created = Arrived /\ Created' = Created \cup {created}
            /\ Arrived' = Arrived
       /\ last'.kind \notin {"geninit", "arrive"} => created' = created]_vars

\* a generated passenger arrived at the instant of the passenger before it
\* and another one later
C26_Witness ==
  /\ INITIAL_PASSENGERS = 1
  /\ 2 \in Arrived
  /\ pax[1].arrival = pax[0].arrival
  /\ pax[2].arrival > pax[1].arrival

\* C27: bounded waiting: no passenger is in a wait queue, or suspended on
\* its request, at a virtual time later than its deadline, and while it
\* waits its timeout is scheduled for the deadline.
C27_BoundedWaiting ==
  /\ \A s \in Stages : \A i \in 1..Len(putq[s]) : now <= Deadline(putq[s][i])
  /\ \A p \in PIds :
       pax[p].pc = "waiting" =>
         /\ now <= Deadline(p)
         /\ \/ pax[p].condTrig
            \/ \E i \in 1..Len(queue) :
                 /\ queue[i].kind = "deadline" /\ queue[i].p = p
                 /\ queue[i].s = pax[p].stage /\ queue[i].time = Deadline(p)

\* a passenger is in the wait queue of a stage after registration at the
\* instant of its deadline
C27_Witness ==
  \E s \in Stages \ {1} : \E i \in 1..Len(putq[s]) :
    now = Deadline(putq[s][i]) /\ pax[putq[s][i]].start < now

\* C28: no service starts later than the deadline of its passenger: every
\* stage a passenger completed or is in service at was granted and started
\* at or before arrival + max wait, and the sojourn time of a served
\* passenger exceeds the maximum wait by no more than the service time of
\* its boarding.
C28_NoServiceStartAfterDeadline ==
  \A p \in PIds :
    /\ \A i \in 1..Len(pax[p].log) :
         pax[p].log[i].grant <= Deadline(p) /\ pax[p].log[i].from <= Deadline(p)
    /\ pax[p].pc = "inproc" => pax[p].granted_at <= Deadline(p)
    /\ (\E i \in 1..Len(queue) : queue[i].kind \in {"svc", "svcdone"} /\ queue[i].p = p) =>
         pax[p].svc_from <= Deadline(p)
    /\ pax[p].pc = "served" =>
         pax[p].sojourn[1] <= MAX_WAIT_TIME + pax[p].log[Len(pax[p].log)].time

\* a passenger was served with a sojourn time above the maximum wait
C28_Witness ==
  \E p \in PIds : pax[p].pc = "served" /\ pax[p].sojourn[1] > MAX_WAIT_TIME

\* C29: service is never cut short by the deadline: a passenger that was
\* granted the resource it waited for is served, so a passenger that
\* entered a stage before its deadline and expired there was never granted
\* the resource of that stage.
C29_GrantedIsServed ==
  \A p \in PIds :
    (pax[p].pc = "expired" /\ pax[p].start < Deadline(p)) => ~pax[p].triggered

\* C30 (as claimed): in every state the users of every resource are exactly
\* the passengers in service at it.
C30_InUseEqualsInService ==
  \A s \in Stages : users[s] = InService(s)

\* C30 (amended): no resource leak: a passenger is among the users or in the wait
\* queue of the resource of its current stage only, never of two resources
\* and never of both; a served, expired or failed passenger holds nothing
\* and waits nowhere; every passenger in service holds its resource; and
\* whenever virtual time advances, and when the run has ended, the users of
\* every resource are exactly the passengers in service at it.
C30_NoResourceLeak ==
  [][last'.kind \notin {"restart", "main"} =>
       /\ \A p \in PIds : \A s \in Stages :
            /\ p \in users'[s] =>
                 /\ pax'[p].stage = s /\ pax'[p].triggered
                 /\ pax'[p].pc \in {"waiting", "inproc"}
                 /\ ~InSeq(putq'[s], p)
            /\ InSeq(putq'[s], p) =>
                 /\ pax'[p].stage = s /\ ~pax'[p].triggered
                 /\ pax'[p].pc = "waiting"
            /\ (pax'[p].pc = "inproc" /\ pax'[p].stage = s) => p \in users'[s]
       /\ \A p \in PIds :
            pax'[p].pc \in {"served", "expired", "failed", "new", "init"} =>
              \A s \in Stages : p \notin users'[s] /\ ~InSeq(putq'[s], p)
       /\ now' > now => \A s \in Stages : users[s] = InService(s)
       /\ run' = "done" => \A s \in Stages : users'[s] = InService(s)']_vars

\* at the end of the run a passenger is in service at a stage after
\* registration, another one waits for that resource, and a third is done
C30_Witness ==
  /\ run = "done"
  /\ \E s \in Stages \ {1} :
       /\ users[s] # {} /\ users[s] = InService(s)
       /\ Len(putq[s]) > 0
  /\ \E p \in PIds : pax[p].pc \in {"served", "expired"}

\* C31: liveness: unless the horizon is reached first, every created
\* passenger eventually reaches Served or Expired.
C31_EveryPassengerEnds ==
  \A p \in PIds : (p \in Created) ~> (p \in Terminal \/ run = "done")

\* no passenger waits forever: every created passenger eventually is served
\* or expired, or its run has ended, at the horizon or with an exception
NoPassengerWaitsForever ==
  \A p \in PIds : (p \in Created) ~> (p \in Terminal \/ run # "running")

\* the results list holds one entry for each experiment that has ended, in
\* the order of the batch list, numbered from 1 and with the parameters of
\* its experiment
EntriesInOrder ==
  /\ Len(results) = experiment
  /\ experiment <= Len(batch_params)
  /\ \A k \in 1..Len(results) :
       /\ results[k].experiment_id = k
       /\ results[k].parameters = batch_params[k]
       /\ DOMAIN results[k] \in {{"experiment_id", "parameters", "statistics"},
                                {"experiment_id", "parameters", "error"}}

\* the batch goes on until it is saved: an event of the running experiment
\* can be executed, or the experiment has ended and is about to be
\* recorded, or every experiment of the list has its entry
BatchGoesOn ==
  \/ Runnable /\ cfg = batch_params[experiment + 1]
  \/ run \in {"done", "error"} /\ experiment < Len(batch_params)
  \/ run = "saved" /\ Len(results) = Len(batch_params)

\* C32: run_batch_experiments isolates failures: an experiment that raised
\* an exception is recorded as an error entry and the remaining experiments
\* still run; an experiment that returned is recorded with its statistics;
\* the results list has exactly one entry per experiment of the batch list,
\* in the order of the list, with experiment_id = position + 1.
C32_BatchIsolatesFailures ==
  [][/\ EntriesInOrder' /\ BatchGoesOn'
     /\ results' # results =>
          /\ SubSeq(results', 1, Len(results)) = results
          /\ Len(results') = Len(results) + 1
          /\ run = "error" <=> "error" \in DOMAIN results'[Len(results')]
          /\ run = "done" =>
               /\ "statistics" \in DOMAIN results'[Len(results')]
               /\ results'[Len(results')].statistics = stats
          /\ experiment' < Len(batch_params) =>
               /\ run' = Started(batch_params[experiment' + 1])
               /\ cfg' = batch_params[experiment' + 1]
               /\ now' = 0 /\ served_passengers' = 0 /\ rejected_passengers' = 0]_vars

\* a saved batch of two experiments whose first raised an exception in the
\* middle of its run and whose second returned statistics
C32_Witness ==
  /\ run = "saved"
  /\ Len(results) = 2
  /\ "error" \in DOMAIN results[1]
  /\ \A c \in Stages : batch_params[1].resources[c] > 0
  /\ "statistics" \in DOMAIN results[2]
  /\ results[2].statistics # None

\* the objects a value reaches
RECURSIVE Reach(_, _)
Reach(h, v) ==
  IF ~IsRef(v) THEN {}
  ELSE {v.r} \cup (IF IsDict(h[v.r])
                   THEN UNION {Reach(h, h[v.r].d[k]) : k \in DOMAIN h[v.r].d}
                   ELSE {})
\* the objects of the values of the grid
GridObjects ==
  UNION {UNION {Reach(heap, grid_params[j][2][x]) : x \in 1..Len(grid_params[j][2])} :
           j \in 1..Len(grid_params)}
\* base merged with updates, both texts of dictionaries: a key of updates
\* replaces or adds the value, nested dictionaries are merged key by key,
\* the other keys of base are kept
RECURSIVE Merged(_, _)
Merged(base, updates) ==
  [d |-> [k \in DOMAIN base.d \cup DOMAIN updates.d |->
            IF k \notin DOMAIN updates.d THEN base.d[k]
            ELSE IF k \in DOMAIN base.d /\ IsDict(base.d[k]) /\ IsDict(updates.d[k])
                 THEN Merged(base.d[k], updates.d[k])
                 ELSE updates.d[k]]]
\* the text of combination i of the grid, i counted from 0
CombinationTree(i) ==
  [d |-> [k \in GridKeys(grid_params) |-> dumps(heap, Combination(grid_params, i)[k])]]
\* no two sets of the returned list share an object, and no set shares one
\* with base_params or with the values of grid_params
IndependentCopies ==
  /\ \A x \in 1..Len(param_list.value) :
       Reach(heap, param_list.value[x]) \cap (Reach(heap, base_params) \cup GridObjects) = {}
  /\ \A x, y \in 1..Len(param_list.value) :
       x # y => Reach(heap, param_list.value[x]) \cap Reach(heap, param_list.value[y]) = {}

\* C33: generate_grid_search_params returns one parameter set per element
\* of the Cartesian product of the grid value lists, each equal to
\* base_params with the values of its combination merged in, and the sets
\* are independent copies: they share no object with each other, with
\* base_params or with grid_params.
C33_IndependentCopies ==
  param_list.returned =>
    /\ Len(param_list.value) = Total(grid_params)
    /\ \A x \in 1..Len(param_list.value) :
         dumps(heap, param_list.value[x]) =
           Merged(dumps(heap, base_params), CombinationTree(x - 1))
    /\ IndependentCopies

\* what generate_grid_search_params does do: it raises for an empty grid
\* and for no other; it returns one set per combination, in the order of
\* itertools.product, each with the text of base_params merged with its
\* combination; it changes no object that existed before the call, so
\* base_params and grid_params are as they were; and a set shares no object
\* with base_params or with another set except objects of grid_params
GridSearchParamsMerged ==
  [][param_list' # param_list =>
       /\ param_list'.raised <=> grid_params = <<>>
       /\ param_list'.returned <=> ~param_list'.raised
       /\ param_list'.returned =>
            /\ Len(param_list'.value) = Total(grid_params)
            /\ \A x \in 1..Len(param_list'.value) :
                 dumps(heap', param_list'.value[x]) =
                   Merged(dumps(heap, base_params), CombinationTree(x - 1))
            /\ \A x \in 1..Len(param_list'.value) :
                 Reach(heap', param_list'.value[x]) \cap Reach(heap, base_params) = {}
            /\ \A x, y \in 1..Len(param_list'.value) :
                 x # y => (Reach(heap', param_list'.value[x])
                            \cap Reach(heap', param_list'.value[y])) \subseteq GridObjects
       /\ Len(heap') >= Len(heap)
       /\ \A o \in 1..Len(heap) : heap'[o] = heap[o]]_vars

====
